---- MODULE Spec2Model ----
(***************************************************************************)
(* CallMi signaling server (src/main.py): the ConnectionManager registry,  *)
(* the /ws and /main-menu WebSocket handlers, the REST room creation and   *)
(* the background cleanup task, as one state machine.                      *)
(*                                                                         *)
(* All handlers run as asyncio coroutines on one event loop: code between  *)
(* two awaits is atomic, and every await on socket I/O (ws.accept,         *)
(* ws.send_json, ws.receive_json, asyncio.gather over sends) is a point    *)
(* where any other handler or the cleanup task may run.  Each action below *)
(* is one such atomic stretch of a handler.  Awaits that never reach the   *)
(* event loop (update_room_activity, gather over an empty task list) do    *)
(* not split an action.                                                    *)
(*                                                                         *)
(* Sends made by asyncio.gather are delivered in the action that creates   *)
(* the send coroutines; the caller resumes in a later action.              *)
(*                                                                         *)
(* Specifications: Spec (everything of main.py, from an empty database),   *)
(* RelaySpec (the receive loop under every frame), OrderSpec (the relay    *)
(* with the socket streams recorded), JoinSpec (joins of three sessions)   *)
(* and AppSpec (src/app.py, the server with first-frame credentials).      *)
(***************************************************************************)
EXTENDS Integers, FiniteSets, Sequences, TLC

\* ---------------------------------------------------------------- bounds
NumConns == 2      \* WebSocket connections opened during a run
MaxRoomId == 2     \* largest room id the database hands out
MaxTime == 2       \* the clock runs 0..MaxTime
MaxFrames == 2     \* frames a client sends while its stream is recorded

\* config.ROOM_CLEANUP_TIMEOUT_SECONDS: an environment-configured number of
\* seconds (default 300); the model configures it to one clock tick.
ROOM_CLEANUP_TIMEOUT_SECONDS == 1

Conns == 1..NumConns
RoomIdSet == 1..MaxRoomId
PeerIds == {"p1", "p2"}
RoomNames == <<"A", "B", "C", "D">>   \* payload.name, in the order clients use them
Passwords == {"", "a"}
None == "None"

\* hashlib.sha256(pwd.encode()).hexdigest(), digests cut to four hex digits
sha256(p) ==
    CASE p = ""  -> "e3b0"
      [] p = "a" -> "ca97"

\* close codes of websocket_endpoint
CodeRoomNotFound == 4004
CodeWrongPassword == 4000

VARIABLES
    db,               \* table rooms: id -> [name, pwd_hash, last_activity]
    rooms,            \* manager.rooms: room_id -> (peer_id -> [name, ws])
    main_menu_users,  \* manager.main_menu_users: peer_id -> [name, ws]
    now,              \* datetime.now(timezone.utc), in ticks
    conn,             \* per connection: the handler's position and locals
    active_connections, \* app.py active_connections: room_id -> set of ws
    sent,             \* per connection: frames its client has sent (OrderSpec)
    wire,             \* per connection: relayed frames written to its socket,
                      \* in order (OrderSpec)
    ev                \* the last handler step and the frames it sent

vars == <<db, rooms, main_menu_users, now, conn, active_connections, sent, wire, ev>>

\* ---------------------------------------------------------------- helpers
EmptyMap == [x \in {} |-> None]

MapPut(m, k, v) == [x \in (DOMAIN m) \cup {k} |-> IF x = k THEN v ELSE m[x]]

MapDel(m, k) == [x \in (DOMAIN m) \ {k} |-> m[x]]

\* [{"id": pid, "name": p_data["name"]} for pid, p_data in self.rooms[room_id].items()]
PeerList(members) == {<<p, members[p].name>> : p \in DOMAIN members}

Msg(type, id, name, peers, from_id, to_id) ==
    [type |-> type, id |-> id, name |-> name, peers |-> peers,
     from_id |-> from_id, to_id |-> to_id]

RoomStateMsg(peers) == Msg("room_state", None, None, peers, None, None)
NewPeerMsg(peer_id, name) == Msg("new_peer", peer_id, name, {}, None, None)
PeerLeftMsg(peer_id) == Msg("peer_left", peer_id, None, {}, None, None)
RoomsUpdatedMsg(event) == Msg("rooms_updated", event, None, {}, None, None)

\* a send on ws succeeds while the connection is open
SendOk(ws) == conn[ws].alive

Send(ws, msg) == [ws |-> ws, ok |-> SendOk(ws), msg |-> msg]

NoEv == [op |-> "none", c |-> 0, sends |-> {}, arg |-> None]
Ev(op, c, sends, arg) == [op |-> op, c |-> c, sends |-> sends, arg |-> arg]

InitConn ==
    [pc |-> "idle", room_id |-> 0, peer_id |-> None, user_name |-> None,
     pwd |-> None, alive |-> FALSE, existing_peers |-> {}, notified |-> {},
     failed |-> FALSE, code |-> 0, todo |-> {}, size |-> 0]

\* the handler of c ends: "closed" by returning, "crashed" by an exception
\* that nothing catches; either way the server closes the socket and the
\* handler's locals are gone
End(c, how) == [conn EXCEPT ![c] = [InitConn EXCEPT !.pc = how]]

Init ==
    /\ db = EmptyMap
    /\ rooms = EmptyMap
    /\ main_menu_users = EmptyMap
    /\ now = 0
    /\ conn = [c \in Conns |-> InitConn]
    /\ active_connections = EmptyMap
    /\ sent = [c \in Conns |-> 0]
    /\ wire = [c \in Conns |-> <<>>]
    /\ ev = NoEv

\* the user_name of the path: each connection brings its own display name
UserNameOf(c) == CASE c = 1 -> "n1" [] c = 2 -> "n2" [] c = 3 -> "n3" [] OTHER -> "n4"

\* connections are opened in index order (they are interchangeable)
CanOpen(c) ==
    /\ conn[c].pc = "idle"
    /\ \A d \in Conns : d < c => conn[d].pc # "idle"

\* ------------------------------------------------------- room directory
\* SQLite hands an INTEGER PRIMARY KEY the largest id in use plus one
\* (Room.id, engine from config.DATABASE_URL = sqlite:///./rooms.db)
MaxOf(S) == CHOOSE x \in S : \A y \in S : y <= x

NextRowId == IF DOMAIN db = {} THEN 1 ELSE MaxOf(DOMAIN db) + 1

\* pwd_hash = sha256(password) if payload.password else None
PwdHashOf(password) == IF password # "" THEN sha256(password) ELSE None

\* notify_main_menu_users_room_list_changed: one send per lobby entry;
\* gather(return_exceptions=True) swallows every failure
NotifySends(event) ==
    {Send(main_menu_users[p].ws, RoomsUpdatedMsg(event)) : p \in DOMAIN main_menu_users}

NameInUse(name) == \E r \in DOMAIN db : db[r].name = name

\* POST /api/rooms with a name not in use (a name in use answers 400 and
\* changes nothing); names are interchangeable, the first free one is taken
CreateRoom(i, password) ==
    /\ ~NameInUse(RoomNames[i])
    /\ \A j \in 1..(i - 1) : NameInUse(RoomNames[j])
    /\ NextRowId \in RoomIdSet
    /\ db' = MapPut(db, NextRowId,
                    [name |-> RoomNames[i], pwd_hash |-> PwdHashOf(password),
                     last_activity |-> now])
    /\ ev' = Ev("create_room", 0, NotifySends("room_created"), None)
    /\ UNCHANGED <<sent, wire, active_connections, rooms, main_menu_users, now, conn>>

\* ------------------------------------------------------- websocket_endpoint
\* room.pwd_hash is falsy, or sha256 of the query password equals it
PasswordOk(pwd_hash, pwd) == pwd_hash = None \/ pwd_hash = sha256(pwd)

\* lines 248-277 up to the first await of manager.connect.  A refused
\* connection is accepted and closed at once; it touches no shared state.
Open(c, room_id, peer_id, pwd) ==
    /\ CanOpen(c)
    /\ LET me == [conn[c] EXCEPT !.room_id = room_id, !.peer_id = peer_id,
                                 !.user_name = UserNameOf(c), !.pwd = pwd]
       IN  IF room_id \notin DOMAIN db
           THEN conn' = [conn EXCEPT ![c] =
                           [InitConn EXCEPT !.pc = "closed", !.code = CodeRoomNotFound]]
           ELSE IF ~PasswordOk(db[room_id].pwd_hash, pwd)
           THEN conn' = [conn EXCEPT ![c] =
                           [InitConn EXCEPT !.pc = "closed", !.code = CodeWrongPassword]]
           ELSE conn' = [conn EXCEPT ![c] =
                           [me EXCEPT !.pc = "accepting", !.alive = TRUE]]
    /\ ev' = NoEv
    /\ UNCHANGED <<sent, wire, active_connections, db, rooms, main_menu_users, now>>

\* update_room_activity: room.last_activity = now when the record exists
UpdateRoomActivity(room_id) ==
    IF room_id \in DOMAIN db
    THEN [db EXCEPT ![room_id].last_activity = now]
    ELSE db

\* connect, lines 82-91: after ws.accept() up to the await of the
\* room_state send
AfterAccept(c) ==
    /\ conn[c].pc = "accepting"
    /\ LET r == conn[c].room_id
           rooms1 == IF r \notin DOMAIN rooms THEN MapPut(rooms, r, EmptyMap) ELSE rooms
       IN  IF ~conn[c].alive
           THEN /\ conn' = End(c, "crashed")
                /\ UNCHANGED <<db, rooms>>
           ELSE /\ rooms' = rooms1
                /\ db' = UpdateRoomActivity(r)
                /\ conn' = [conn EXCEPT ![c].pc = "sending_state",
                                        ![c].existing_peers = PeerList(rooms1[r])]
    /\ ev' = NoEv
    /\ UNCHANGED <<sent, wire, active_connections, main_menu_users, now>>

\* broadcast, lines 113-117: the members a broadcast sends to
BroadcastTargets(room_id, exclude_id) ==
    IF room_id \in DOMAIN rooms
    THEN {p \in DOMAIN rooms[room_id] : p # exclude_id}
    ELSE {}

BroadcastSends(room_id, msg, exclude_id) ==
    {Send(rooms[room_id][p].ws, msg) : p \in BroadcastTargets(room_id, exclude_id)}

\* line 97: self.rooms[room_id][peer_id] = {"name": name, "ws": ws}
Insert(c) ==
    [rooms EXCEPT ![conn[c].room_id] =
        MapPut(@, conn[c].peer_id, [name |-> conn[c].user_name, ws |-> c])]

\* connect, lines 91-97: the room_state send returned; broadcast new_peer.
\* With no recipient gather() does not suspend and line 97 runs at once;
\* with the room key gone line 97 raises KeyError.
AfterRoomState(c) ==
    /\ conn[c].pc = "sending_state"
    /\ LET r == conn[c].room_id
           state == Send(c, RoomStateMsg(conn[c].existing_peers))
           sends == BroadcastSends(r, NewPeerMsg(conn[c].peer_id, conn[c].user_name),
                                   conn[c].peer_id)
       IN  IF ~conn[c].alive
           THEN /\ conn' = End(c, "crashed")
                /\ ev' = Ev("room_state", c, {state}, None)
                /\ UNCHANGED rooms
           ELSE IF r \notin DOMAIN rooms
           THEN /\ conn' = End(c, "crashed")
                /\ ev' = Ev("room_state", c, {state}, None)
                /\ UNCHANGED rooms
           ELSE IF sends = {}
           THEN /\ rooms' = Insert(c)
                /\ conn' = [conn EXCEPT ![c].pc = "joined"]
                /\ ev' = Ev("insert", c, {state}, None)
           ELSE /\ conn' = [conn EXCEPT ![c].pc = "broadcasting",
                                        ![c].notified = {s.ws : s \in sends},
                                        ![c].failed = \E s \in sends : ~s.ok]
                /\ ev' = Ev("new_peer", c, {state} \cup sends, None)
                /\ UNCHANGED rooms
    /\ UNCHANGED <<sent, wire, active_connections, db, main_menu_users, now>>

\* connect, lines 94-97: gather returned or raised
AfterBroadcast(c) ==
    /\ conn[c].pc = "broadcasting"
    /\ IF conn[c].failed \/ conn[c].room_id \notin DOMAIN rooms
       THEN /\ conn' = End(c, "crashed")
            /\ ev' = Ev("join_failed", c, {}, None)
            /\ UNCHANGED rooms
       ELSE /\ rooms' = Insert(c)
            /\ conn' = [conn EXCEPT ![c].pc = "joined"]
            /\ ev' = Ev("insert", c, {}, None)
    /\ UNCHANGED <<sent, wire, active_connections, db, main_menu_users, now>>
\* ------------------------------------------------------- receive loop
\* inbound frames: data.get("type"), data.get("to_id"), a client-written
\* from_id; Malformed is a frame receive_json cannot decode
\* directed sdp/ice frames, with no from_id or with one the client wrote;
\* frames of another or no type, with and without to_id; refresh_users
Frames ==
    [type : {"sdp", "ice"}, to_id : PeerIds, from_id : {None, "p1"}]
    \cup [type : {"chat", None}, to_id : PeerIds \cup {None}, from_id : {None}]
    \cup [type : {"sdp", "refresh_users"}, to_id : {None}, from_id : {None}]
\* the frames that can change the registry or end the handler
CoreFrames ==
    [type : {"sdp"}, to_id : PeerIds, from_id : {None}]
    \cup [type : {"refresh_users"}, to_id : {None}, from_id : {None}]

Malformed == [type |-> "malformed", to_id |-> None, from_id |-> None]

\* a relay that keeps a from_id the client wrote (data.setdefault)
StampIfAbsent(data, peer_id) ==
    Msg(data.type, None, None, {},
        IF data.from_id # None THEN data.from_id ELSE peer_id, data.to_id)

\* line 295: data["from_id"] = peer_id
Stamp(data, peer_id) == Msg(data.type, None, None, {}, peer_id, data.to_id)

\* a send_to_peer that finds the target in whatever room holds its peer id
SendToPeerAnyRoom(room_id, peer_id, message) ==
    {Send(rooms[r][peer_id].ws, message) :
        r \in {q \in DOMAIN rooms : peer_id \in DOMAIN rooms[q]}}

\* send_to_peer, lines 109-110
SendToPeer(room_id, peer_id, message) ==
    IF room_id \in DOMAIN rooms /\ peer_id \in DOMAIN rooms[room_id]
    THEN {Send(rooms[room_id][peer_id].ws, message)}
    ELSE {}

\* lines 282-296: one frame received and handled.  A relay send that fails
\* raises WebSocketDisconnect (caught at line 298) or another exception,
\* as the installed starlette and server make it.
HandleFrame(c, data) ==
    /\ conn[c].pc = "joined"
    /\ conn[c].alive
    /\ LET r == conn[c].room_id
           relay == SendToPeer(r, data.to_id, Stamp(data, conn[c].peer_id))
       IN  IF data = Malformed
           THEN /\ conn' = End(c, "crashed")
                /\ ev' = Ev("bad_frame", c, {}, data)
           ELSE IF data.type = "refresh_users"
           THEN IF r \in DOMAIN rooms
                THEN /\ ev' = Ev("refresh", c, {Send(c, RoomStateMsg(PeerList(rooms[r])))}, data)
                     /\ UNCHANGED conn
                ELSE /\ conn' = End(c, "crashed")
                     /\ ev' = Ev("refresh", c, {}, data)
           ELSE IF data.to_id # None
           THEN /\ ev' = Ev("relay", c, relay, data)
                /\ IF \E s \in relay : ~s.ok
                   THEN \/ conn' = [conn EXCEPT ![c].pc = "leaving"]
                        \/ conn' = End(c, "crashed")
                   ELSE UNCHANGED conn
           ELSE /\ ev' = Ev("drop", c, {}, data)
                /\ UNCHANGED conn
    /\ UNCHANGED <<active_connections, db, rooms, main_menu_users, now>>

\* a frame put at the head of what was written to a socket
WirePrepend(w, frame) == <<frame>> \o w

\* line 110: send_json writes the frame to the target's socket after the
\* frames written to it before
WireAppend(w, frame) == Append(w, frame)

\* the sockets' streams after the relay sends of a step: each delivered
\* frame is on its target's stream, tagged <<sender connection, number>>
WireAfter(c, sends) ==
    [t \in Conns |->
        IF \E s \in sends : s.ws = t /\ s.ok
        THEN WireAppend(wire[t], <<c, sent[c] + 1>>)
        ELSE wire[t]]

Receive(c, data) ==
    /\ HandleFrame(c, data)
    /\ UNCHANGED <<sent, wire>>

\* Receive with the client's frames numbered in the order it sends them and
\* the socket streams recorded
ReceiveNumbered(c, data) ==
    /\ sent[c] < MaxFrames
    /\ HandleFrame(c, data)
    /\ sent' = [sent EXCEPT ![c] = @ + 1]
    /\ wire' = WireAfter(c, IF ev'.op = "relay" THEN ev'.sends ELSE {})

\* a disconnect that keeps the key of a room it emptied
AfterLeaveKeepsKey(room_id, peer_id) ==
    IF room_id \in DOMAIN rooms /\ peer_id \in DOMAIN rooms[room_id]
    THEN [rooms EXCEPT ![room_id] = MapDel(@, peer_id)]
    ELSE rooms

\* disconnect, lines 100-103: the registry after the removal
AfterLeave(room_id, peer_id) ==
    IF room_id \in DOMAIN rooms /\ peer_id \in DOMAIN rooms[room_id]
    THEN IF DOMAIN rooms[room_id] = {peer_id}
         THEN MapDel(rooms, room_id)
         ELSE [rooms EXCEPT ![room_id] = MapDel(@, peer_id)]
    ELSE rooms

\* disconnect, lines 104-106: peer_left to the members that remain
LeaveSends(room_id, peer_id) ==
    IF room_id \in DOMAIN rooms /\ peer_id \in DOMAIN rooms[room_id]
    THEN {Send(rooms[room_id][p].ws, PeerLeftMsg(peer_id)) :
              p \in DOMAIN rooms[room_id] \ {peer_id}}
    ELSE {}

\* lines 298-299: WebSocketDisconnect out of the receive loop (the client
\* closed, gracefully or not) or out of a relay send
Leave(c) ==
    /\ \/ conn[c].pc = "joined" /\ ~conn[c].alive
       \/ conn[c].pc = "leaving"
    /\ rooms' = AfterLeave(conn[c].room_id, conn[c].peer_id)
    /\ LET sends == LeaveSends(conn[c].room_id, conn[c].peer_id)
       IN  /\ ev' = Ev("leave", c, sends, <<conn[c].room_id, conn[c].peer_id>>)
           /\ conn' = End(c, IF \E s \in sends : ~s.ok THEN "crashed" ELSE "closed")
    /\ UNCHANGED <<sent, wire, active_connections, db, main_menu_users, now>>

\* the client side closes the socket or the network drops it
ClientClose(c) ==
    /\ conn[c].pc \in {"accepting", "sending_state", "broadcasting", "joined",
                       "lobby_accepting", "lobby",
                       "app_authenticating", "app_joined", "app_relaying"}
    /\ conn[c].alive
    /\ conn' = [conn EXCEPT ![c].alive = FALSE]
    /\ ev' = NoEv
    /\ UNCHANGED <<sent, wire, active_connections, db, rooms, main_menu_users, now>>

\* ------------------------------------------------------- main_menu_websocket
\* Frames received on a lobby socket are read and discarded (line 239): they
\* change nothing and have no action.
LobbyOpen(c, peer_id) ==
    /\ CanOpen(c)
    /\ conn' = [conn EXCEPT ![c].pc = "lobby_accepting", ![c].alive = TRUE,
                            ![c].peer_id = peer_id, ![c].user_name = UserNameOf(c)]
    /\ ev' = NoEv
    /\ UNCHANGED <<sent, wire, active_connections, db, rooms, main_menu_users, now>>

\* lines 231-234: add_main_menu_user after ws.accept()
LobbyAfterAccept(c) ==
    /\ conn[c].pc = "lobby_accepting"
    /\ IF conn[c].alive
       THEN /\ main_menu_users' = MapPut(main_menu_users, conn[c].peer_id,
                                         [name |-> conn[c].user_name, ws |-> c])
            /\ conn' = [conn EXCEPT ![c].pc = "lobby"]
       ELSE /\ conn' = End(c, "crashed")
            /\ UNCHANGED main_menu_users
    /\ ev' = NoEv
    /\ UNCHANGED <<sent, wire, active_connections, db, rooms, now>>

\* lines 240-244: remove_main_menu_user when receive_text raises
LobbyLeave(c) ==
    /\ conn[c].pc = "lobby"
    /\ ~conn[c].alive
    /\ main_menu_users' = MapDel(main_menu_users, conn[c].peer_id)
    /\ conn' = End(c, "closed")
    /\ ev' = Ev("lobby_leave", c, {}, None)
    /\ UNCHANGED <<sent, wire, active_connections, db, rooms, now>>

\* ------------------------------------------------------- cleanup_empty_rooms
\* line 144
HasUsers(room_id) == room_id \in DOMAIN rooms /\ Cardinality(DOMAIN rooms[room_id]) > 0

\* a staleness test that includes the cutoff itself
IsStaleInclusive(room) == room.last_activity <= now - ROOM_CLEANUP_TIMEOUT_SECONDS

\* lines 137, 148-150: last_activity_timestamp < cutoff_time
IsStale(room) == room.last_activity < now - ROOM_CLEANUP_TIMEOUT_SECONDS

\* the records the loop of lines 142-157 passes to db.delete
ToDelete == {r \in DOMAIN db : ~HasUsers(r) /\ IsStale(db[r])}

\* a cycle that notifies the lobby whether or not it deleted a record
CleanupNotifyAlways(deleted) == NotifySends("room_deleted")

\* lines 162-163: rooms_deleted is one flag for the whole cycle, and one
\* call of notify_main_menu_users_room_list_changed follows it
CleanupNotifySends(deleted) ==
    IF deleted # {} THEN NotifySends("room_deleted") ELSE {}

\* one cycle of cleanup_task; the loop has no await, so a cycle is atomic up
\* to its notification.  The sleep between cycles is not measured against
\* the clock: a cycle may run at any time.  commit_ok = FALSE: db.commit() raises and
\* line 167 rolls every deletion back; the in-memory deletions of line 157
\* stay, and no notification is sent.
Cleanup(commit_ok) ==
    /\ rooms' = [r \in (DOMAIN rooms) \ ToDelete |-> rooms[r]]
    /\ IF commit_ok
       THEN /\ db' = [r \in (DOMAIN db) \ ToDelete |-> db[r]]
            /\ ev' = Ev("cleanup", 0, CleanupNotifySends(ToDelete), ToDelete)
       ELSE /\ ToDelete # {}
            /\ UNCHANGED db
            /\ ev' = Ev("cleanup_failed", 0, {}, ToDelete)
    /\ UNCHANGED <<sent, wire, active_connections, main_menu_users, now, conn>>

Tick ==
    /\ now < MaxTime
    /\ now' = now + 1
    /\ ev' = NoEv
    /\ UNCHANGED <<sent, wire, active_connections, db, rooms, main_menu_users, conn>>

Next ==
    \/ \E i \in DOMAIN RoomNames, password \in Passwords : CreateRoom(i, password)
    \/ \E c \in Conns, room_id \in RoomIdSet, peer_id \in PeerIds, pwd \in Passwords :
            Open(c, room_id, peer_id, pwd)
    \/ \E c \in Conns : AfterAccept(c)
    \/ \E c \in Conns : AfterRoomState(c)
    \/ \E c \in Conns : AfterBroadcast(c)
    \/ \E c \in Conns, data \in CoreFrames \cup {Malformed} : Receive(c, data)
    \/ \E c \in Conns : Leave(c)
    \/ \E c \in Conns : ClientClose(c)
    \/ \E c \in Conns, peer_id \in PeerIds : LobbyOpen(c, peer_id)
    \/ \E c \in Conns : LobbyAfterAccept(c)
    \/ \E c \in Conns : LobbyLeave(c)
    \/ \E commit_ok \in BOOLEAN : Cleanup(commit_ok)
    \/ Tick

Spec == Init /\ [][Next]_vars

\* ------------------------------------------------------- relay specification
\* The receive loop under every frame of Frames, over a room directory that
\* holds two rooms created earlier (one without password, one with password
\* "a") and is not changed.
RelayInit ==
    /\ db = (1 :> [name |-> RoomNames[1], pwd_hash |-> PwdHashOf(""), last_activity |-> 0])
          @@ (2 :> [name |-> RoomNames[2], pwd_hash |-> PwdHashOf("a"), last_activity |-> 0])
    /\ rooms = EmptyMap
    /\ main_menu_users = EmptyMap
    /\ now = 0
    /\ conn = [c \in Conns |-> InitConn]
    /\ active_connections = EmptyMap
    /\ sent = [c \in Conns |-> 0]
    /\ wire = [c \in Conns |-> <<>>]
    /\ ev = NoEv

RelayNext ==
    \/ \E c \in Conns, room_id \in RoomIdSet, peer_id \in PeerIds, pwd \in Passwords :
            Open(c, room_id, peer_id, pwd)
    \/ \E c \in Conns : AfterAccept(c)
    \/ \E c \in Conns : AfterRoomState(c)
    \/ \E c \in Conns : AfterBroadcast(c)
    \/ \E c \in Conns, data \in Frames \cup {Malformed} : Receive(c, data)
    \/ \E c \in Conns : Leave(c)
    \/ \E c \in Conns : ClientClose(c)

RelaySpec == RelayInit /\ [][RelayNext]_vars
\* ------------------------------------------------------- order specification
\* The relay under numbered frames: joins, leaves and directed sdp frames of
\* every session interleave over the two rooms of RelayInit, and what is
\* written to each socket is recorded.
OrderNext ==
    \/ \E c \in Conns, room_id \in RoomIdSet, peer_id \in PeerIds, pwd \in Passwords :
            Open(c, room_id, peer_id, pwd)
    \/ \E c \in Conns : AfterAccept(c)
    \/ \E c \in Conns : AfterRoomState(c)
    \/ \E c \in Conns : AfterBroadcast(c)
    \/ \E c \in Conns, data \in [type : {"sdp"}, to_id : PeerIds, from_id : {None}] :
            ReceiveNumbered(c, data)
    \/ \E c \in Conns : Leave(c)
    \/ \E c \in Conns : ClientClose(c)

OrderSpec == RelayInit /\ [][OrderNext]_vars

\* ------------------------------------------------------- join specification
\* Joins, closes and leaves alone, with one connection and one peer id more
\* than the other specifications, over the two rooms of RelayInit: two
\* sessions can join a room that already has a member.
JoinConns == 1..(NumConns + 1)
JoinPeerIds == PeerIds \cup {"p3"}

JoinInit ==
    /\ db = (1 :> [name |-> RoomNames[1], pwd_hash |-> PwdHashOf(""), last_activity |-> 0])
          @@ (2 :> [name |-> RoomNames[2], pwd_hash |-> PwdHashOf("a"), last_activity |-> 0])
    /\ rooms = EmptyMap
    /\ main_menu_users = EmptyMap
    /\ now = 0
    /\ conn = [c \in JoinConns |-> InitConn]
    /\ active_connections = EmptyMap
    /\ sent = [c \in JoinConns |-> 0]
    /\ wire = [c \in JoinConns |-> <<>>]
    /\ ev = NoEv

JoinNext ==
    \/ \E c \in JoinConns, room_id \in RoomIdSet, peer_id \in JoinPeerIds, pwd \in Passwords :
            Open(c, room_id, peer_id, pwd)
    \/ \E c \in JoinConns : AfterAccept(c)
    \/ \E c \in JoinConns : AfterRoomState(c)
    \/ \E c \in JoinConns : AfterBroadcast(c)
    \/ \E c \in JoinConns : Leave(c)
    \/ \E c \in JoinConns : ClientClose(c)

JoinSpec == JoinInit /\ [][JoinNext]_vars

\* ------------------------------------------------------- app.py
\* src/app.py, the server with the first-frame credential protocol: the
\* password travels in the first frame, rooms are sets of sockets, and every
\* later frame is relayed as text to all other sockets of the room.
AppCodeAuthFailed == 4000

\* first frames: text that is not JSON, a JSON object without the key
\* "password", a JSON object whose "password" is a string
AppMalformed == [kind |-> "malformed", password |-> None]
AppNoPassword == [kind |-> "object", password |-> None]
AppFirstFrames ==
    {AppMalformed, AppNoPassword} \cup [kind : {"password"}, password : Passwords]

\* a relayed frame: text the server does not look into
AppText == Msg("text", None, None, {}, None, None)

\* lines 67-71: the frame has a password, the record exists, it stores a
\* hash, and the hash differs from the hash of the frame's password
AppRejects(room_id, initial) ==
    /\ initial.kind = "password"
    /\ room_id \in DOMAIN db
    /\ db[room_id].pwd_hash # None
    /\ db[room_id].pwd_hash # sha256(initial.password)

\* line 75: active_connections.setdefault(room_id, set()).add(ws)
AppRegister(room_id, ws) ==
    MapPut(active_connections, room_id,
           (IF room_id \in DOMAIN active_connections
            THEN active_connections[room_id] ELSE {}) \cup {ws})

\* line 84: active_connections[room_id].remove(ws)
AppRemove(room_id, ws) ==
    [active_connections EXCEPT ![room_id] = @ \ {ws}]

\* lines 63-66: the socket is accepted and the handler waits for the first
\* frame
AppOpen(c, room_id) ==
    /\ CanOpen(c)
    /\ conn' = [conn EXCEPT ![c].pc = "app_authenticating", ![c].alive = TRUE,
                            ![c].room_id = room_id]
    /\ ev' = NoEv
    /\ UNCHANGED <<sent, wire, db, rooms, main_menu_users, now, active_connections>>

\* line 66 with the socket gone: receive_text raises outside the try block
AppAuthLost(c) ==
    /\ conn[c].pc = "app_authenticating"
    /\ ~conn[c].alive
    /\ conn' = End(c, "crashed")
    /\ ev' = NoEv
    /\ UNCHANGED <<sent, wire, db, rooms, main_menu_users, now, active_connections>>

\* lines 66-75: the first frame arrived.  json.loads raises on text that is
\* not JSON and nothing catches it; a rejected password closes with 4000;
\* every other frame registers the socket.
AppFirstFrame(c, initial) ==
    /\ conn[c].pc = "app_authenticating"
    /\ conn[c].alive
    /\ IF initial = AppMalformed
       THEN /\ conn' = End(c, "crashed")
            /\ UNCHANGED active_connections
       ELSE IF AppRejects(conn[c].room_id, initial)
       THEN /\ conn' = [conn EXCEPT ![c] =
                          [InitConn EXCEPT !.pc = "closed", !.code = AppCodeAuthFailed]]
            /\ UNCHANGED active_connections
       ELSE /\ active_connections' = AppRegister(conn[c].room_id, c)
            /\ conn' = [conn EXCEPT ![c].pc = "app_joined"]
    /\ ev' = Ev("app_first_frame", c, {}, initial)
    /\ UNCHANGED <<sent, wire, db, rooms, main_menu_users, now>>

\* lines 80-82: the for loop runs on to its next send.  rest holds the
\* sockets the iterator has not reached; the handler's own socket is passed
\* over without an await.  A send that fails raises WebSocketDisconnect
\* (line 83 removes the sender) or another exception, as the installed
\* starlette and server make it.
AppIterate(c, rest, size) ==
    LET r == conn[c].room_id
        targets == (rest \cap active_connections[r]) \ {c}
    IN  IF targets = {}
        THEN /\ conn' = [conn EXCEPT ![c].pc = "app_joined", ![c].todo = {},
                                     ![c].size = 0]
             /\ ev' = Ev("app_relay", c, {}, None)
             /\ UNCHANGED active_connections
        ELSE \E t \in targets :
                /\ ev' = Ev("app_relay", c, {Send(t, AppText)}, None)
                /\ IF SendOk(t)
                   THEN /\ conn' = [conn EXCEPT ![c].pc = "app_relaying",
                                                ![c].todo = targets \ {t},
                                                ![c].size = size]
                        /\ UNCHANGED active_connections
                   ELSE \/ /\ active_connections' = AppRemove(r, c)
                           /\ conn' = End(c, "closed")
                        \/ /\ conn' = End(c, "crashed")
                           /\ UNCHANGED active_connections

\* lines 78-82: a frame arrived and the loop over the room's set begins
AppReceive(c) ==
    /\ conn[c].pc = "app_joined"
    /\ conn[c].alive
    /\ AppIterate(c, active_connections[conn[c].room_id],
                  Cardinality(active_connections[conn[c].room_id]))
    /\ UNCHANGED <<sent, wire, db, rooms, main_menu_users, now>>

\* lines 80-82: a send returned and the iterator is asked for the next
\* socket; a set whose size changed during the iteration raises RuntimeError
AppRelayNext(c) ==
    /\ conn[c].pc = "app_relaying"
    /\ IF Cardinality(active_connections[conn[c].room_id]) # conn[c].size
       THEN /\ conn' = End(c, "crashed")
            /\ ev' = Ev("app_relay_failed", c, {}, None)
            /\ UNCHANGED active_connections
       ELSE AppIterate(c, conn[c].todo, conn[c].size)
    /\ UNCHANGED <<sent, wire, db, rooms, main_menu_users, now>>

\* lines 83-84: receive_text raises WebSocketDisconnect
AppLeave(c) ==
    /\ conn[c].pc = "app_joined"
    /\ ~conn[c].alive
    /\ active_connections' = AppRemove(conn[c].room_id, c)
    /\ conn' = End(c, "closed")
    /\ ev' = Ev("app_leave", c, {}, conn[c].room_id)
    /\ UNCHANGED <<sent, wire, db, rooms, main_menu_users, now>>

\* the rooms table holds two rooms created earlier through POST /api/rooms,
\* one without password and one with password "a"
AppInit ==
    /\ db = (1 :> [name |-> RoomNames[1], pwd_hash |-> PwdHashOf(""), last_activity |-> 0])
          @@ (2 :> [name |-> RoomNames[2], pwd_hash |-> PwdHashOf("a"), last_activity |-> 0])
    /\ rooms = EmptyMap
    /\ main_menu_users = EmptyMap
    /\ now = 0
    /\ conn = [c \in Conns |-> InitConn]
    /\ active_connections = EmptyMap
    /\ sent = [c \in Conns |-> 0]
    /\ wire = [c \in Conns |-> <<>>]
    /\ ev = NoEv

AppNext ==
    \/ \E c \in Conns, room_id \in RoomIdSet : AppOpen(c, room_id)
    \/ \E c \in Conns : AppAuthLost(c)
    \/ \E c \in Conns, initial \in AppFirstFrames : AppFirstFrame(c, initial)
    \/ \E c \in Conns : AppReceive(c)
    \/ \E c \in Conns : AppRelayNext(c)
    \/ \E c \in Conns : AppLeave(c)
    \/ \E c \in Conns : ClientClose(c)

AppSpec == AppInit /\ [][AppNext]_vars
\* ======================================================= claims
\* room_member_count: the members the registry holds for a room id
MemberCount(reg, r) == IF r \in DOMAIN reg THEN Cardinality(DOMAIN reg[r]) ELSE 0

\* the connections registered under room id r
MemberConns(reg, r) == IF r \in DOMAIN reg THEN {reg[r][p].ws : p \in DOMAIN reg[r]} ELSE {}

\* the step of connect that runs line 97 for connection c
JoinStep(c) ==
    /\ conn[c].pc \in {"sending_state", "broadcasting"}
    /\ conn'[c].pc = "joined"

\* C1: at every join of a peer under an id new to the room, the room_state
\* list sent to the joiner is the member list of the room immediately before
\* the joiner is inserted, every one of those members was sent the new_peer
\* notice, and the joiner was not.  (A join under an id already in the room
\* is the subject of C5.)
C1_JoinSeesPriorMembers ==
    [][\A c \in Conns :
          (JoinStep(c) /\ conn[c].peer_id \notin DOMAIN rooms[conn[c].room_id]) =>
          LET r == conn[c].room_id
          IN  /\ conn[c].existing_peers = PeerList(rooms[r])
              /\ conn[c].notified = MemberConns(rooms, r)
              /\ c \notin conn[c].notified]_vars

\* C2: a relayed sdp or ice frame reaches at most one connection, the one
\* registered as to_id in the sender's room, and carries the sender's peer_id
\* as from_id whatever from_id the client wrote.
C2_DirectedRelay ==
    [][(ev'.op = "relay" /\ ev'.arg.type \in {"sdp", "ice"}) =>
          LET S == ev'.c
              r == conn[S].room_id
              X == ev'.arg.to_id
          IN  /\ Cardinality(ev'.sends) <= 1
              /\ \A s \in ev'.sends :
                    /\ r \in DOMAIN rooms
                    /\ X \in DOMAIN rooms[r]
                    /\ s.ws = rooms[r][X].ws
                    /\ s.msg.from_id = conn[S].peer_id
                    /\ s.msg.type = ev'.arg.type]_vars

\* C2 witness: a frame with a from_id written by the client, different from
\* the sender's id, was delivered to its target in a room of two members
C2_Witness ==
    /\ ev.op = "relay"
    /\ ev.arg.type \in {"sdp", "ice"}
    /\ ev.arg.from_id # None
    /\ conn[ev.c].pc = "joined"
    /\ ev.arg.from_id # conn[ev.c].peer_id
    /\ ev.arg.to_id # conn[ev.c].peer_id
    /\ MemberCount(rooms, conn[ev.c].room_id) = 2
    /\ \E s \in ev.sends : s.ok /\ s.ws # ev.c

\* C3: a cleanup cycle whose commit succeeds deletes exactly the records
\* that have no registered member and whose last_activity is more than the
\* timeout in the past; no step deletes any other record.
C3_ReclaimIffEmptyAndStale ==
    [][/\ ev'.op = "cleanup" =>
            \A r \in DOMAIN db :
                (r \notin DOMAIN db') <=>
                    (/\ MemberCount(rooms, r) = 0
                     /\ now - db[r].last_activity > ROOM_CLEANUP_TIMEOUT_SECONDS)
       /\ \A r \in DOMAIN db :
            r \notin DOMAIN db' =>
                /\ ev'.op = "cleanup"
                /\ MemberCount(rooms, r) = 0
                /\ now - db[r].last_activity > ROOM_CLEANUP_TIMEOUT_SECONDS]_vars

\* C3 witness: a cycle deleted a record while a record as old, with a
\* member, stayed
C3_Witness ==
    /\ ev.op = "cleanup"
    /\ ev.arg # {}
    /\ \E r \in DOMAIN db :
          /\ MemberCount(rooms, r) > 0
          /\ now - db[r].last_activity > ROOM_CLEANUP_TIMEOUT_SECONDS
\* the registered members of password rooms hold the room's password
MembersHoldPassword ==
    \A r \in (DOMAIN db) \cap (DOMAIN rooms) :
        db[r].pwd_hash # None =>
            \A p \in DOMAIN rooms[r] :
                LET c == rooms[r][p].ws
                IN  conn[c].pc = "joined" => sha256(conn[c].pwd) = db[r].pwd_hash

\* a connection refused for its password changes nothing and sends nothing
RefusalLeavesNoTrace ==
    \A c \in Conns :
        (conn[c].pc = "idle" /\ conn'[c].code = CodeWrongPassword) =>
            /\ conn'[c].pc = "closed"
            /\ rooms' = rooms
            /\ db' = db
            /\ main_menu_users' = main_menu_users
            /\ ev'.sends = {}

\* C4: a connection is registered in a room whose record stores password
\* hash H only if the password it supplied hashes to H; a connection with a
\* wrong or no password is closed with the incorrect-password code and
\* leaves the registry, the frames sent and last_activity as they were.
C4_PasswordGate ==
    [][MembersHoldPassword' /\ RefusalLeavesNoTrace]_vars
\* C5: a join under a peer_id already registered in the room does not
\* register the second connection, and no registered entry (display name,
\* connection) is ever replaced.
C5_DuplicatePeerRejected ==
    [][/\ \A c \in Conns :
            JoinStep(c) => conn[c].peer_id \notin DOMAIN rooms[conn[c].room_id]
       /\ \A r \in (DOMAIN rooms) \cap (DOMAIN rooms') :
            \A p \in (DOMAIN rooms[r]) \cap (DOMAIN rooms'[r]) :
                rooms'[r][p] = rooms[r][p]]_vars

\* C6: a peer_id is a member of at most one room, and never a room member
\* and a lobby member at once.
C6_PeerInOnePlace ==
    \A p \in PeerIds :
        LET in == {r \in DOMAIN rooms : p \in DOMAIN rooms[r]}
        IN  /\ Cardinality(in) <= 1
            /\ ~(in # {} /\ p \in DOMAIN main_menu_users)

\* C7: every room id that is a key of the registry maps to a non-empty
\* member set.
C7_NoEmptyRoomKey ==
    \A r \in DOMAIN rooms : DOMAIN rooms[r] # {}

\* C8: a failed send inside a room broadcast does not fail the caller (the
\* join still registers the joiner, the leave ends normally) and the
\* failing recipient is removed from the room.
C8_BroadcastFailureIsolated ==
    [][/\ \A c \in Conns :
            (/\ conn[c].pc = "broadcasting"
             /\ conn[c].failed
             /\ conn[c].room_id \in DOMAIN rooms
             /\ conn'[c].pc # "broadcasting") => conn'[c].pc = "joined"
       /\ (ev'.op = "leave" /\ \E s \in ev'.sends : ~s.ok) =>
            /\ conn'[ev'.c].pc = "closed"
            /\ \A s \in ev'.sends : ~s.ok => s.ws \notin MemberConns(rooms', ev'.arg[1])]_vars

\* C9: a leave of the last member drops the room id from the registry and
\* sends nothing; a leave that leaves members behind keeps them and sends
\* peer_left naming the leaver to each of them; the room records are not
\* touched.
C9_LeaveEffect ==
    [][ev'.op = "leave" =>
          LET c == ev'.c
              r == conn[c].room_id
              p == conn[c].peer_id
          IN  /\ db' = db
              /\ main_menu_users' = main_menu_users
              /\ (MemberCount(rooms, r) > 0 /\ p \in DOMAIN rooms[r]) =>
                    IF DOMAIN rooms[r] = {p}
                    THEN /\ MemberCount(rooms', r) = 0
                         /\ r \notin DOMAIN rooms'
                         /\ ev'.sends = {}
                    ELSE /\ DOMAIN rooms'[r] = (DOMAIN rooms[r]) \ {p}
                         /\ \A q \in DOMAIN rooms'[r] : rooms'[r][q] = rooms[r][q]
                         /\ {s.ws : s \in ev'.sends} = MemberConns(rooms', r)
                         /\ \A s \in ev'.sends : s.msg = PeerLeftMsg(p)
              /\ \A q \in DOMAIN rooms : q # r => (q \in DOMAIN rooms' /\ rooms'[q] = rooms[q])]_vars

\* C9 witness: the last member of a room left: its room id is out of the
\* registry, nothing was sent, the record is still there
C9_Witness ==
    /\ ev.op = "leave"
    /\ conn[ev.c].pc = "closed"
    /\ ev.sends = {}
    /\ ev.arg[1] \in DOMAIN db
    /\ ev.arg[1] \notin DOMAIN rooms
    /\ \E d \in Conns : conn[d].pc = "joined" /\ conn[d].room_id # ev.arg[1]

\* C10: when the handler of a session that reached Joined ends, by a close
\* or by an error raised while receiving or relaying, the registry no longer
\* holds that session's connection.
C10_EndedSessionLeft ==
    [][\A c \in Conns :
          (conn[c].pc \in {"joined", "leaving"} /\ conn'[c].pc \in {"closed", "crashed"}) =>
              \A r \in DOMAIN rooms' : c \notin MemberConns(rooms', r)]_vars

\* C11: a received frame that is malformed, or whose type is missing or is
\* none of sdp, ice, refresh_users (with or without a to_id), is dropped:
\* nothing is sent because of it, the registry is unchanged, and the
\* sender's handler stays in its receive loop.
C11_UnknownFrameDropped ==
    [][(/\ ev'.op \in {"relay", "drop", "bad_frame"}
        /\ ev'.arg.type \notin {"sdp", "ice", "refresh_users"}) =>
            /\ ev'.sends = {}
            /\ rooms' = rooms
            /\ conn'[ev'.c].pc = "joined"]_vars

C13_FirstFrameGate ==
    [][ev'.op = "app_first_frame" =>
          LET c == ev'.c
              r == conn[c].room_id
              initial == ev'.arg
              registered == r \in DOMAIN active_connections' /\ c \in active_connections'[r]
          IN  (r \in DOMAIN db /\ db[r].pwd_hash # None) =>
                IF initial.kind = "password" /\ sha256(initial.password) = db[r].pwd_hash
                THEN registered
                ELSE /\ ~registered
                     /\ conn'[c].pc = "closed"
                     /\ conn'[c].code = AppCodeAuthFailed]_vars

\* C14: when a lobby notification (after a room creation or a cleanup cycle)
\* fails to reach one lobby member, that member is out of the lobby
\* membership when the notification is over, every other member was sent
\* the notification, and the caller completes (the record is created, the
\* deletions are committed).
C14_LobbyFailureIsolated ==
    [][(/\ ev'.op \in {"create_room", "cleanup"}
        /\ \E s \in ev'.sends : ~s.ok) =>
            /\ \A s \in ev'.sends :
                  ~s.ok => \A p \in DOMAIN main_menu_users' : main_menu_users'[p].ws # s.ws
            /\ \A p \in DOMAIN main_menu_users :
                  \E s \in ev'.sends : s.ws = main_menu_users[p].ws
            /\ ev'.op = "create_room" => DOMAIN db' # DOMAIN db
            /\ ev'.op = "cleanup" => ev'.arg \cap DOMAIN db' = {}]_vars

\* C15: a failure while the cycle deletes one record does not undo the
\* cycle for the others: of the records a failing cycle passed to db.delete
\* at most the one that failed is still in the table afterwards.
C15_DeleteFailureIsolated ==
    [][ev'.op = "cleanup_failed" =>
          Cardinality(ev'.arg \cap DOMAIN db') <= 1]_vars

DistinctPeerIds ==
    \A c, d \in JoinConns :
        (c # d /\ conn[c].room_id # 0 /\ conn[c].room_id = conn[d].room_id) =>
            conn[c].peer_id # conn[d].peer_id

\* C17: of two sessions registered in the same room under different peer
\* ids, at least one was told of the other during its join: the room_state
\* list one of them received names the other, or the new_peer notice of one
\* of them was sent to the other.  (Sessions that share a peer id are the
\* subject of C5.)
C17_MutualDiscovery ==
    DistinctPeerIds =>
        \A a, b \in JoinConns :
            (/\ a # b
             /\ conn[a].pc = "joined"
             /\ conn[b].pc = "joined"
             /\ conn[a].room_id = conn[b].room_id
             /\ a \in MemberConns(rooms, conn[a].room_id)
             /\ b \in MemberConns(rooms, conn[b].room_id)) =>
                \/ <<conn[b].peer_id, conn[b].user_name>> \in conn[a].existing_peers
                \/ <<conn[a].peer_id, conn[a].user_name>> \in conn[b].existing_peers
                \/ b \in conn[a].notified
                \/ a \in conn[b].notified

\* C18: every room id under which the registry holds at least one member
\* has a record in the rooms table.
C18_MembersHaveRecord ==
    \A r \in DOMAIN rooms : DOMAIN rooms[r] # {} => r \in DOMAIN db

\* C19: every session in its receive loop has a registry entry under its
\* room id and peer id, and that entry holds the session's own connection.
C19_JoinedOwnsEntry ==
    \A c \in Conns :
        conn[c].pc = "joined" =>
            /\ conn[c].room_id \in DOMAIN rooms
            /\ conn[c].peer_id \in DOMAIN rooms[conn[c].room_id]
            /\ rooms[conn[c].room_id][conn[c].peer_id].ws = c

\* C20: every frame a handler sends for a peer of room R (room_state and
\* new_peer of its join, its relayed frames, its refresh_users reply, the
\* peer_left of its leave) goes to the peer's own connection or to a
\* connection registered in room R, never to a connection registered only
\* in another room, also when a peer id is in use in both rooms.
C20_RoomIsolation ==
    [][ev'.op \in {"room_state", "insert", "new_peer", "relay", "refresh", "leave"} =>
          LET c == ev'.c
              r == conn[c].room_id
          IN  \A s \in ev'.sends :
                  \/ s.ws = c
                  \/ s.ws \in MemberConns(rooms, r)]_vars

\* C20 witness: a frame was relayed to a peer id that another connection
\* holds in another room, and it was delivered
C20_Witness ==
    /\ ev.op = "relay"
    /\ \E s \in ev.sends : s.ok
    /\ conn[ev.c].pc = "joined"
    /\ \E d \in Conns :
          /\ d # ev.c
          /\ conn[d].pc = "joined"
          /\ conn[d].room_id # conn[ev.c].room_id
          /\ d \in MemberConns(rooms, conn[d].room_id)
          /\ conn[d].peer_id = ev.arg.to_id
====
